---- MODULE Spec2Model ----
(***************************************************************************)
(* tpp-bot: a Twitch-Plays-Pokemon chat bot.  The model covers the line    *)
(* decoder and reply classifier of src/src/irc.rs and the sampling loop    *)
(* of src/src/main.rs (bucket rotation, window sums, most_used, the send   *)
(* policy and the per-reply tally).                                        *)
(*                                                                         *)
(* Time is counted in milliseconds.  A byte is a one-character string; a   *)
(* byte outside ASCII is written "xHH".  u16 arithmetic wraps modulo 2^16  *)
(* as in a release build.                                                  *)
(***************************************************************************)
EXTENDS Integers, Sequences, FiniteSets, TLC

VARIABLES
    status,             \* "running", or the panic that aborted the process
    bot,                \* config.bot
    now,                \* Instant::now(), counted from the start of the session
    welcome,            \* run: welcome
    samples,            \* run: samples (VecDeque, front = index 1)
    active_sample_time, \* run: active_sample_time
    global_sample,      \* run: global_sample
    tpp_sample,         \* run: tpp_sample
    log_interval,       \* run: log_interval
    last_message,       \* run: last_message
    next_message_time,  \* run: next_message_time
    message_count,      \* run: message_count
    data,               \* IrcClient.data
    outbox,             \* history: every line written by send_fmt
    closed,             \* history: every bucket closed in this session, in order
    underflow,          \* history: a sub_assign took more than the sum held
    recvs,              \* number of non-empty reads of this session
    lost,               \* history: what the session just ended by an error held
    arg,                \* argument of the pure function under check
    result,             \* its result
    input,              \* decoder check: the bytes the server sends
    fed,                \* decoder check: how many of them were read so far
    lines               \* decoder check: raw text of the replies decoded so far

vars == <<status, bot, now, welcome, samples, active_sample_time, global_sample,
          tpp_sample, log_interval, last_message, next_message_time,
          message_count, data, outbox, closed, underflow, recvs, lost, arg,
          result, input, fed, lines>>

loopVars == <<status, bot, now, welcome, samples, active_sample_time,
              global_sample, tpp_sample, log_interval, last_message,
              next_message_time, message_count, outbox, closed, underflow,
              recvs, lost>>

(***************************************************************************)
(* Program constants (src/src/main.rs).                                    *)
(***************************************************************************)
SAMPLE_DURATION == 100
GLOBAL_SAMPLE_COUNT == 100
TPP_SAMPLE_COUNT == 20
SAMPLE_LOG_INTERVAL == 10
SleepMillis == 10
U16 == 65536

\* TPP_SAMPLE_DURATION, in milliseconds
TPP_SAMPLE_DURATION == SAMPLE_DURATION * TPP_SAMPLE_COUNT

\* mutant of MinIntervalMillis: the 20 messages taken per second, not per 30 s
MinIntervalWithoutLimit == (1 * 1000) \div 20 + 300

\* 1.0 / MESSAGES_RATE_LIMIT + 0.3 seconds, in milliseconds (20 messages per 30 s)
MinIntervalMillis == (30 * 1000) \div 20 + 300

(***************************************************************************)
(* Bounds of the model.                                                    *)
(***************************************************************************)
\* rotations explored per session
MaxRotations == 138
\* non-empty reads per session
MaxRecv == 2
\* the server's data arrives while the rotation count is a multiple of this
ArrivalPeriod == 20
\* time an iteration spends outside its sleep
BusyMillis == 91
\* largest counter value of a most_used argument
MaxCount == 4
\* length of the byte sequences fed to the decoder
MaxLen == 4
\* length of the nickname of a constructed line
MaxNick == 2
\* iterations of a session that is read line by line
MaxPolls == 6
\* time such an iteration spends outside its sleep
PollBusyMillis == 24

(***************************************************************************)
(* Sample (src/src/main.rs:311-390).                                       *)
(***************************************************************************)
CommandFields == <<"up", "left", "down", "right", "a", "b", "x", "y",
                   "demo", "anar", "start">>

SampleFields == {"message_count", "tpp_command_count"}
                    \cup {CommandFields[i] : i \in 1..Len(CommandFields)}

\* Sample::default()
SampleDefault == [f \in SampleFields |-> 0]

\* mutant of add_assign: the line of one counter is missing
add_assign_without_left(self, rhs) ==
    [f \in SampleFields |->
        IF f = "left" THEN self[f] ELSE (self[f] + rhs[f]) % U16]

\* AddAssign for Sample: every field, u16 +=
add_assign(self, rhs) == [f \in SampleFields |-> (self[f] + rhs[f]) % U16]

\* mutant of sub_assign: the line of the command total is missing
sub_assign_without_total(self, rhs) ==
    [f \in SampleFields |->
        IF f = "tpp_command_count" THEN self[f] ELSE (self[f] - rhs[f] + U16) % U16]

\* SubAssign for Sample: every field, u16 -=
sub_assign(self, rhs) == [f \in SampleFields |-> (self[f] - rhs[f] + U16) % U16]

\* whether self -= rhs underflows a u16 counter
Underflows(self, rhs) == \E f \in SampleFields : self[f] < rhs[f]

\* the (weighted count, label) array of most_used
tpp_commands(self) ==
    << <<self.up, "n">>,
       <<self.left, "w">>,
       <<self.down, "s">>,
       <<self.right, "e">>,
       <<self.a, "a">>,
       <<self.b, "b">>,
       <<self.x, "x">>,
       <<self.y, "y">>,
       <<(self.demo * 2) % U16, "democratie">>,
       <<self.anar \div 4, "anarchie">>,
       <<self.start, "start">> >>

\* mutant of PrefixLeq: equal keys are not passed over
RECURSIVE PrefixLess(_, _)
PrefixLess(s, k) ==
    IF s = <<>> \/ s[1][1] >= k THEN 0 ELSE 1 + PrefixLess(Tail(s), k)

\* number of leading elements of s whose key is at most k
RECURSIVE PrefixLeq(_, _)
PrefixLeq(s, k) ==
    IF s = <<>> \/ s[1][1] > k THEN 0 ELSE 1 + PrefixLeq(Tail(s), k)

\* insert e into the sorted s behind every element whose key is at most e's
InsertByKey(s, e) ==
    LET n == PrefixLeq(s, e[1])
    IN  SubSeq(s, 1, n) \o <<e>> \o SubSeq(s, n + 1, Len(s))

\* slice::sort_by_key on the first component: ascending and stable
RECURSIVE sort_by_key(_)
sort_by_key(s) ==
    IF s = <<>> THEN <<>>
    ELSE InsertByKey(sort_by_key(SubSeq(s, 1, Len(s) - 1)), s[Len(s)])

\* 0-based index most_used reads after sorting
MostUsedIndex == 10

\* Sample::most_used
most_used(self) == sort_by_key(tpp_commands(self))[MostUsedIndex + 1][2]

(***************************************************************************)
(* Bucket rotation (src/src/main.rs:118-179).                              *)
(***************************************************************************)
\* mutant of samples_full: the history is taken for full one bucket late
samples_full_late(ss) == Len(ss) > GLOBAL_SAMPLE_COUNT + 1

\* samples.len() > GLOBAL_SAMPLE_COUNT, read at the top of the iteration
samples_full(ss) == Len(ss) > GLOBAL_SAMPLE_COUNT

\* active_sample_time.elapsed() > SAMPLE_DURATION
FlushDue(t, started) == t - started > SAMPLE_DURATION

\* mutant of TppLeavingIndex: off by one
TppLeavingIndexLate(len) == len - TPP_SAMPLE_COUNT

\* 0-based index of the sample leaving the short window, for a deque of len
TppLeavingIndex(len) == len - 1 - TPP_SAMPLE_COUNT

\* whether the short window gives a sample back, for a deque of len
TppOverfull(len) == len > TPP_SAMPLE_COUNT

\* the deque after the pop_front of a full history
PopFront(ss, full) == IF full THEN Tail(ss) ELSE ss

\* the flush of the active sample: both sums, the deque and the new active sample
Flush(ss, g, t, full) ==
    LET sample == ss[Len(ss)]
        g1 == add_assign(g, sample)
        t1 == add_assign(t, sample)
        g2 == IF full THEN sub_assign(g1, Head(ss)) ELSE g1
        ss1 == PopFront(ss, full)
        shrink == TppOverfull(Len(ss1))
        leaving == ss1[TppLeavingIndex(Len(ss1)) + 1]
        t2 == IF shrink THEN sub_assign(t1, leaving) ELSE t1
    IN  [samples |-> Append(ss1, SampleDefault),
         global_sample |-> g2,
         tpp_sample |-> t2,
         underflow |-> \/ full /\ Underflows(g1, Head(ss))
                       \/ shrink /\ Underflows(t1, leaving)]

\* log_interval after a flush: a log line is written every SAMPLE_LOG_INTERVAL
LogInterval(n) == IF n + 1 >= SAMPLE_LOG_INTERVAL THEN 0 ELSE n + 1

(***************************************************************************)
(* Send policy (src/src/main.rs:181-231).                                  *)
(***************************************************************************)
Max(p, q) == IF p >= q THEN p ELSE q

\* tpp_command_sec, in thousandths of a command per second
tpp_command_sec(t) == (t.tpp_command_count * 1000 * 1000) \div TPP_SAMPLE_DURATION

\* tpp_command_ratio >= 0.60
RatioReached(t) ==
    IF t.message_count = 0 THEN FALSE
    ELSE t.tpp_command_count * 100 >= 60 * t.message_count

\* tpp_command_sec >= 2.0
RateReached(t) == tpp_command_sec(t) >= 2000

\* interval, in milliseconds
interval_secs(t) == Max(8000 - tpp_command_sec(t), MinIntervalMillis)

\* mutant of remaining_time: next_message_time is not looked at
remaining_time_unarmed(full, next, t, interval) == IF full THEN 0 ELSE interval

\* remaining_time, in milliseconds
remaining_time(full, next, t, interval) ==
    IF full THEN (IF next >= t THEN next - t ELSE 0) ELSE interval

\* mutant of ShouldSend: the ratio of commands to messages is not looked at
ShouldSendAnyRatio(enabled, remaining, t) ==
    enabled /\ remaining = 0 /\ RateReached(t)

\* the condition of the send
ShouldSend(enabled, remaining, t) ==
    enabled /\ remaining = 0 /\ RatioReached(t) /\ RateReached(t)

\* str::make_ascii_uppercase on the labels of most_used
make_ascii_uppercase(s) ==
    CASE s = "n" -> "N"
      [] s = "w" -> "W"
      [] s = "s" -> "S"
      [] s = "e" -> "E"
      [] s = "a" -> "A"
      [] s = "b" -> "B"
      [] s = "x" -> "X"
      [] s = "y" -> "Y"
      [] s = "democratie" -> "DEMOCRATIE"
      [] s = "anarchie" -> "ANARCHIE"
      [] s = "start" -> "START"
      [] OTHER -> s

\* mutant of NextMessage: the label is never re-cased
NextMessageVerbatim(last, tpp_command) == tpp_command

\* mutant of NextMessage: the label is always sent in upper case
NextMessageAlwaysUpper(last, tpp_command) == make_ascii_uppercase(tpp_command)

\* last_message after the send of tpp_command
NextMessage(last, tpp_command) ==
    IF last = tpp_command THEN make_ascii_uppercase(last) ELSE tpp_command

\* a line written by send_fmt: the command, the text of a PRIVMSG or the
\* payload of a PONG, and, for the history, the time of the send, the interval
\* of that iteration, the short-window sum it read and samples.len() at its top
Sent(cmd, txt, payload, interval, t, len) ==
    [cmd |-> cmd, text |-> txt, payload |-> payload, at |-> now,
     interval |-> interval, tpp |-> t, history |-> len]

(***************************************************************************)
(* Bytes and strings.                                                      *)
(***************************************************************************)
CR == "\r"
LF == "\n"

\* the bytes of the model that are not ASCII: a lead byte of a two-byte
\* sequence, two continuation bytes, and a byte no UTF-8 text holds
LeadBytes == {"xC3"}
ContinuationBytes == {"x89", "xA9"}
InvalidBytes == {"xFF"}

\* 1-based position of the first b in s, 0 when there is none
RECURSIVE Position(_, _)
Position(s, b) ==
    IF s = <<>> THEN 0
    ELSE IF s[1] = b THEN 1
    ELSE LET p == Position(Tail(s), b) IN IF p = 0 THEN 0 ELSE p + 1

\* whether std::str::from_utf8 accepts s
RECURSIVE from_utf8_ok(_)
from_utf8_ok(s) ==
    IF s = <<>> THEN TRUE
    ELSE IF s[1] \in InvalidBytes \cup ContinuationBytes THEN FALSE
    ELSE IF s[1] \in LeadBytes
         THEN Len(s) >= 2 /\ s[2] \in ContinuationBytes
                 /\ from_utf8_ok(SubSeq(s, 3, Len(s)))
    ELSE from_utf8_ok(Tail(s))

\* str::splitn(n, ' ')
RECURSIVE splitn(_, _)
splitn(n, s) ==
    LET p == Position(s, " ")
    IN  IF n = 1 \/ p = 0 THEN <<s>>
        ELSE <<SubSeq(s, 1, p - 1)>> \o splitn(n - 1, SubSeq(s, p + 1, Len(s)))

\* str::starts_with(char)
starts_with(s, b) == s # <<>> /\ s[1] = b

UpperLetters == <<"A", "B", "C", "D", "E", "F", "G", "H", "I", "J", "K", "L", "M",
                  "N", "O", "P", "Q", "R", "S", "T", "U", "V", "W", "X", "Y", "Z">>
LowerLetters == <<"a", "b", "c", "d", "e", "f", "g", "h", "i", "j", "k", "l", "m",
                  "n", "o", "p", "q", "r", "s", "t", "u", "v", "w", "x", "y", "z">>

\* char::to_ascii_lowercase
to_ascii_lowercase(b) ==
    LET p == Position(UpperLetters, b) IN IF p = 0 THEN b ELSE LowerLetters[p]

None == [some |-> FALSE, value |-> <<>>]
Some(v) == [some |-> TRUE, value |-> v]

(***************************************************************************)
(* IrcReply (src/src/irc.rs:83-247).  A range is <<start, end>>, 0-based   *)
(* and half open as in Rust.                                               *)
(***************************************************************************)
Known(kind) == [kind |-> kind, token |-> <<>>]
Raw(part) == [kind |-> "Raw", token |-> part]

\* the command a token stands for
Command(part) ==
    CASE part = <<"0", "0", "1">> -> Known("Welcome")
      [] part = <<"0", "0", "2">> -> Known("YourHost")
      [] part = <<"0", "0", "3">> -> Known("Created")
      [] part = <<"0", "0", "4">> -> Known("MyInfo")
      [] part = <<"3", "7", "5">> -> Known("MotdStart")
      [] part = <<"3", "7", "2">> -> Known("MotdText")
      [] part = <<"3", "7", "6">> -> Known("MotdStop")
      [] part = <<"3", "5", "3">> -> Known("Name")
      [] part = <<"3", "6", "6">> -> Known("EndOfNames")
      [] part = <<"P", "R", "I", "V", "M", "S", "G">> -> Known("PrivMsg")
      [] part = <<"P", "I", "N", "G">> -> Known("Ping")
      [] part = <<"J", "O", "I", "N">> -> Known("Join")
      [] OTHER -> Raw(part)

\* the commands whose second and third token are the target and the text
TextCommands == {"Welcome", "YourHost", "Created", "MotdStart", "MotdText",
                 "MotdStop", "PrivMsg"}

\* the loop of from_str over the parts, from the i-th on (enumerate gives i - 1)
RECURSIVE FromParts(_, _, _, _, _)
FromParts(parts, i, start, offset, reply) ==
    IF i > Len(parts) THEN reply
    ELSE
    LET part == parts[i]
        index == (i - 1) - start
        next == offset + Len(part) + 1
        here == <<offset, offset + Len(part)>>
        kind == reply.command.kind
    IN  IF index = 0 /\ starts_with(part, ":")
        THEN FromParts(parts, i + 1, start + 1, next,
                       [reply EXCEPT !.sender_range = <<offset + 1, offset + Len(part)>>])
        ELSE IF index = 0 /\ starts_with(part, "@")
        THEN FromParts(parts, i + 1, start + 1, next,
                       [reply EXCEPT !.metadata_range = <<offset + 1, offset + Len(part)>>])
        ELSE IF index = 0
        THEN FromParts(parts, i + 1, start, next,
                       [reply EXCEPT !.command = Command(part)])
        ELSE IF kind \in TextCommands
        THEN IF index = 1
             THEN FromParts(parts, i + 1, start, next,
                            [reply EXCEPT !.target_range = here])
             ELSE IF index = 2
             THEN IF starts_with(part, ":")
                  THEN [reply EXCEPT !.text_start = offset + 1]
                  ELSE reply
             ELSE FromParts(parts, i + 1, start, next, reply)
        ELSE IF kind = "Join"
        THEN IF index = 1 THEN [reply EXCEPT !.target_range = here] ELSE reply
        ELSE IF kind = "Ping"
        THEN IF index = 1 /\ starts_with(part, ":")
             THEN [reply EXCEPT !.text_start = offset + 1]
             ELSE reply
        ELSE reply

\* IrcReply::from_str
from_str(line) ==
    Some(FromParts(splitn(5, line), 1, 0, 0,
                   [raw |-> line,
                    command |-> Known("Welcome"),
                    metadata_range |-> <<0, 0>>,
                    sender_range |-> <<0, 0>>,
                    target_range |-> <<0, 0>>,
                    text_start |-> 0]))

\* Range::is_empty
is_empty(range) == range[1] >= range[2]

\* &raw[range]
Slice(raw, range) == SubSeq(raw, range[1] + 1, range[2])

\* IrcReply::metadata
metadata(reply) ==
    IF is_empty(reply.metadata_range) THEN None
    ELSE Some(Slice(reply.raw, reply.metadata_range))

\* str::split_once(char): the text before and after the first b, if any
split_once(s, b) ==
    LET p == Position(s, b)
    IN  IF p = 0 THEN None
        ELSE Some(<<SubSeq(s, 1, p - 1), SubSeq(s, p + 1, Len(s))>>)

\* IrcReply::sender
sender(reply) ==
    LET raw == Slice(reply.raw, reply.sender_range)
        at == split_once(raw, "@")
        bang == split_once(at.value[1], "!")
    IN  IF is_empty(reply.sender_range) THEN None
        ELSE IF at.some
        THEN IF bang.some
             THEN Some([nickname |-> Some(bang.value[1]),
                        user |-> Some(bang.value[2]),
                        server |-> at.value[2]])
             ELSE Some([nickname |-> Some(at.value[1]),
                        user |-> None,
                        server |-> at.value[2]])
        ELSE Some([nickname |-> None, user |-> None, server |-> raw])

\* IrcReply::target
target(reply) ==
    IF is_empty(reply.target_range) THEN None
    ELSE Some(Slice(reply.raw, reply.target_range))

\* mutant of text: the slice starts at the payload marker
text_with_marker(reply) ==
    IF reply.text_start = 0 THEN None
    ELSE Some(Slice(reply.raw, <<reply.text_start - 1, Len(reply.raw)>>))

\* IrcReply::text
text(reply) ==
    IF reply.text_start = 0 THEN None
    ELSE Some(Slice(reply.raw, <<reply.text_start, Len(reply.raw)>>))

(***************************************************************************)
(* IrcClient (src/src/irc.rs:8-80).                                        *)
(***************************************************************************)
PanicUtf8 == "panicked: from_utf8 unwrap on Err"
PanicIndex == "panicked: index out of bounds"
PanicUnwrap == "panicked: unwrap on None"

\* mutant of recv: the bytes read replace the buffer
recv_replacing(d, bytes) == bytes

\* IrcClient::recv: everything the socket holds is appended to data
recv(d, bytes) == d \o bytes

\* the byte behind the terminator at cr_pos (0-based), when there is one
AfterTerminator(d, cr_pos) ==
    IF cr_pos + 1 < Len(d) THEN Some(d[cr_pos + 2]) ELSE None

\* IrcClient::decode_reply: the reply, the data left, and the panic if any
RECURSIVE decode_reply(_)
decode_reply(d) ==
    LET p == Position(d, CR)
        cr_pos == p - 1
        line == SubSeq(d, 1, cr_pos)
        reply == from_str(line)
        after == AfterTerminator(d, cr_pos)
        end_pos == IF after.value = LF THEN cr_pos + 2 ELSE cr_pos + 1
        rest == SubSeq(d, end_pos + 1, Len(d))
    IN  IF p = 0 THEN [reply |-> None, data |-> d, panic |-> ""]
        ELSE IF ~from_utf8_ok(line)
        THEN [reply |-> None, data |-> d, panic |-> PanicUtf8]
        ELSE IF ~after.some
        THEN [reply |-> None, data |-> d, panic |-> PanicIndex]
        ELSE IF reply.some
        THEN [reply |-> reply, data |-> rest, panic |-> ""]
        ELSE decode_reply(rest)

(***************************************************************************)
(* Reply processing (src/src/main.rs:233-291).                             *)
(***************************************************************************)
\* the counter a one-byte text stands for, "" for none
LetterField(c) ==
    CASE c \in {"u", "n"} -> "up"
      [] c \in {"l", "w"} -> "left"
      [] c \in {"d", "s"} -> "down"
      [] c \in {"r", "e"} -> "right"
      [] c = "a" -> "a"
      [] c = "b" -> "b"
      [] c = "x" -> "x"
      [] c = "y" -> "y"
      [] OTHER -> ""

\* the counter a longer text stands for, "" for none
WordField(t) ==
    CASE t = <<"h", "a", "u", "t">> -> "up"
      [] t = <<"H", "A", "U", "T">> -> "up"
      [] t = <<"g", "a", "u", "c", "h", "e">> -> "left"
      [] t = <<"G", "A", "U", "C", "H", "E">> -> "left"
      [] t = <<"b", "a", "s">> -> "down"
      [] t = <<"B", "A", "S">> -> "down"
      [] t = <<"d", "r", "o", "i", "t", "e">> -> "right"
      [] t = <<"D", "R", "O", "I", "T", "E">> -> "right"
      [] t = <<"D", "xC3", "x89", "M", "O", "C", "R", "A", "T", "I", "E">> -> "demo"
      [] t = <<"D", "E", "M", "O", "C", "R", "A", "T", "I", "E">> -> "demo"
      [] t = <<"d", "xC3", "xA9", "m", "o", "c", "r", "a", "t", "i", "e">> -> "demo"
      [] t = <<"d", "e", "m", "o", "c", "r", "a", "t", "i", "e">> -> "demo"
      [] t = <<"A", "N", "A", "R", "C", "H", "I", "E">> -> "anar"
      [] t = <<"a", "n", "a", "r", "c", "h", "i", "e">> -> "anar"
      [] t = <<"s", "t", "a", "r", "t">> -> "start"
      [] t = <<"S", "T", "A", "R", "T">> -> "start"
      [] OTHER -> ""

\* the counter of a chat text, "" when it is no command
CommandField(t) ==
    IF Len(t) = 1 THEN LetterField(to_ascii_lowercase(t[1])) ELSE WordField(t)

\* u16 += 1
Incr(n) == (n + 1) % U16

\* mutant of Tally: the total of the commands is not counted
TallyWithoutTotal(sample, t) ==
    LET f == CommandField(t)
        counted == [sample EXCEPT !.message_count = Incr(@)]
    IN  IF f = "" THEN counted ELSE [counted EXCEPT ![f] = Incr(@)]

\* the active sample after a chat message with this text
Tally(sample, t) ==
    LET f == CommandField(t)
        counted == [sample EXCEPT !.message_count = Incr(@)]
    IN  IF f = "" THEN counted
        ELSE [counted EXCEPT ![f] = Incr(@), !.tpp_command_count = Incr(@)]

\* mutant of HandleReply: the welcome arm has no guard
HandleReplyJoiningAgain(st, reply) ==
    LET kind == reply.command.kind
        t == text(reply)
    IN  IF kind = "Welcome"
        THEN [st EXCEPT !.welcome = TRUE,
                        !.out = Append(@, Sent("JOIN", "", <<>>, 0, SampleDefault, 0))]
        ELSE IF kind = "Ping"
        THEN IF ~t.some THEN [st EXCEPT !.panic = PanicUnwrap]
             ELSE [st EXCEPT !.out = Append(@, Sent("PONG", "", t.value, 0, SampleDefault, 0))]
        ELSE IF kind = "PrivMsg" /\ st.welcome
        THEN IF ~t.some
             THEN [st EXCEPT !.sample.message_count = Incr(@),
                             !.panic = PanicUnwrap]
             ELSE [st EXCEPT !.sample = Tally(@, t.value)]
        ELSE st

\* one arm of the match on reply.command; st holds the loop's state
HandleReply(st, reply) ==
    LET kind == reply.command.kind
        t == text(reply)
    IN  IF kind = "Welcome" /\ ~st.welcome
        THEN [st EXCEPT !.welcome = TRUE,
                        !.out = Append(@, Sent("JOIN", "", <<>>, 0, SampleDefault, 0))]
        ELSE IF kind = "Ping"
        THEN IF ~t.some THEN [st EXCEPT !.panic = PanicUnwrap]
             ELSE [st EXCEPT !.out = Append(@, Sent("PONG", "", t.value, 0, SampleDefault, 0))]
        ELSE IF kind = "PrivMsg" /\ st.welcome
        THEN IF ~t.some
             THEN [st EXCEPT !.sample.message_count = Incr(@),
                             !.panic = PanicUnwrap]
             ELSE [st EXCEPT !.sample = Tally(@, t.value)]
        ELSE st

\* mutant of Drain: an if in place of the while
DrainOnce(st) ==
    LET r == decode_reply(st.data)
    IN  IF r.panic # "" THEN [st EXCEPT !.panic = r.panic]
        ELSE IF ~r.reply.some THEN st
        ELSE HandleReply([st EXCEPT !.data = r.data,
                                    !.lines = Append(@, r.reply.value.raw)],
                         r.reply.value)

\* while let Some(reply) = irc.decode_reply() { ... }
RECURSIVE Drain(_)
Drain(st) ==
    LET r == decode_reply(st.data)
    IN  IF r.panic # "" THEN [st EXCEPT !.panic = r.panic]
        ELSE IF ~r.reply.some THEN st
        ELSE LET h == HandleReply([st EXCEPT !.data = r.data,
                                             !.lines = Append(@, r.reply.value.raw)],
                                  r.reply.value)
             IN  IF h.panic # "" THEN h ELSE Drain(h)

(***************************************************************************)
(* What the server sends.                                                  *)
(***************************************************************************)
CRLF == <<CR, LF>>

\* ":tmi 001 bot :hi"
WelcomeLine == <<":", "t", "m", "i", " ", "0", "0", "1", " ", "b", "o", "t", " ", ":", "h", "i">> \o CRLF

\* ":n!u@h PRIVMSG #c :<t>"
Chat(t) == <<":", "n", "!", "u", "@", "h", " ", "P", "R", "I", "V", "M", "S", "G", " ", "#", "c", " ", ":">> \o t \o CRLF

\* "PING :tmi"
PingLine == <<"P", "I", "N", "G", " ", ":", "t", "m", "i">> \o CRLF

\* "PING", a keep-alive without its text
BarePingLine == <<"P", "I", "N", "G">> \o CRLF

RECURSIVE Repeat(_, _)
Repeat(n, s) == IF n = 0 THEN <<>> ELSE s \o Repeat(n - 1, s)

\* the welcome and fifteen commands, thirteen of them "up"
BusyChunk ==
    WelcomeLine \o Repeat(12, Chat(<<"u">>)) \o Chat(<<"H", "A", "U", "T">>)
        \o Chat(<<"L">>) \o Chat(<<"d">>)

\* a keep-alive, four commands in five messages, and a second welcome
CalmChunk ==
    PingLine \o Repeat(3, Chat(<<"a">>)) \o Chat(<<"B">>)
        \o Chat(<<"h", "e", "l", "l", "o", " ", "a", "l", "l">>) \o WelcomeLine

\* five commands in nine messages, and the start of a line
ChattyChunk ==
    Chat(<<"x">>) \o Chat(<<"Y">>) \o Chat(<<"s", "t", "a", "r", "t">>)
        \o Chat(<<"d", "xC3", "xA9", "m", "o", "c", "r", "a", "t", "i", "e">>) \o Chat(<<"a", "n", "a", "r", "c", "h", "i", "e">>)
        \o Repeat(4, Chat(<<"g", "g">>)) \o <<"P", "I">>

Chunks == {BusyChunk, CalmChunk, ChattyChunk, BarePingLine}

\* what a read of this iteration may return: nothing, or one of the chunks
Arrivals ==
    {<<>>} \cup (IF recvs < MaxRecv /\ Len(closed) % ArrivalPeriod = 0
                 THEN Chunks ELSE {})

(***************************************************************************)
(* The session loop (src/src/main.rs:79-297).                              *)
(***************************************************************************)
\* mutant of connect: the new client takes over the buffer of the old one
connect_keeping_data == data

\* IrcClient::connect: the receive buffer of a new client
connect == <<>>

\* no session was ended by the step that led here
NoLoss == [some |-> FALSE, welcome |-> FALSE, pending |-> FALSE, label |-> FALSE,
           history |-> FALSE, sums |-> FALSE, logged |-> FALSE]

Idle ==
    /\ arg = SampleDefault
    /\ result = ""
    /\ input = <<>>
    /\ fed = 0
    /\ lines = <<>>

\* the state of run when it enters its loop
InitRun ==
    /\ status = "running"
    /\ now = 0
    /\ welcome = FALSE
    /\ samples = <<SampleDefault>>
    /\ active_sample_time = 0
    /\ global_sample = SampleDefault
    /\ tpp_sample = SampleDefault
    /\ log_interval = 0
    /\ last_message = ""
    /\ next_message_time = 0
    /\ message_count = 0
    /\ data = <<>>
    /\ outbox = <<>>
    /\ closed = <<>>
    /\ underflow = FALSE
    /\ recvs = 0
    /\ lost = NoLoss

Init ==
    /\ bot \in BOOLEAN
    /\ InitRun
    /\ Idle

\* one iteration of the loop: flush, send, receive and process, sleep; the
\* read returns bytes, and the iteration takes busy ms on top of its sleep
Iterate(bytes, busy) ==
    LET full == samples_full(samples)
        due == FlushDue(now, active_sample_time)
        fl == IF due THEN Flush(samples, global_sample, tpp_sample, full)
              ELSE [samples |-> samples,
                    global_sample |-> global_sample,
                    tpp_sample |-> tpp_sample,
                    underflow |-> FALSE]
        tpp_command == most_used(fl.tpp_sample)
        interval == interval_secs(fl.tpp_sample)
        remaining == remaining_time(full, next_message_time, now, interval)
        send == ShouldSend(bot, remaining, fl.tpp_sample)
        message == NextMessage(last_message, tpp_command)
        st == Drain([data |-> recv(data, bytes),
                     welcome |-> welcome,
                     sample |-> fl.samples[Len(fl.samples)],
                     out |-> IF send
                             THEN Append(outbox,
                                         Sent("PRIVMSG", message, <<>>, interval,
                                              fl.tpp_sample, Len(samples)))
                             ELSE outbox,
                     lines |-> <<>>,
                     panic |-> ""])
    IN  /\ samples' = [fl.samples EXCEPT ![Len(fl.samples)] = st.sample]
        /\ global_sample' = fl.global_sample
        /\ tpp_sample' = fl.tpp_sample
        /\ underflow' = (underflow \/ fl.underflow)
        /\ closed' = IF due THEN Append(closed, samples[Len(samples)]) ELSE closed
        /\ active_sample_time' = IF due THEN now ELSE active_sample_time
        /\ log_interval' = IF due THEN LogInterval(log_interval) ELSE log_interval
        /\ last_message' = IF send THEN message ELSE last_message
        /\ message_count' = IF send THEN message_count + 1 ELSE message_count
        /\ next_message_time' = IF send THEN now + interval ELSE next_message_time
        /\ data' = st.data
        /\ welcome' = st.welcome
        /\ outbox' = st.out
        /\ recvs' = IF bytes = <<>> THEN recvs ELSE recvs + 1
        /\ status' = IF st.panic = "" THEN "running" ELSE st.panic
        /\ now' = now + SleepMillis + busy
        /\ lost' = NoLoss

\* an iteration of the loop of run
Loop ==
    /\ status = "running"
    /\ Len(closed) < MaxRotations
    /\ \E bytes \in Arrivals : Iterate(bytes, BusyMillis)
    /\ UNCHANGED <<bot, arg, result, input, fed, lines>>

\* a read or a write fails: run returns the error, and main calls run again,
\* which connects anew and sets up its locals
TransportError ==
    /\ status = "running"
    /\ lost' = [some |-> TRUE,
                welcome |-> welcome,
                pending |-> data # <<>>,
                label |-> last_message # "",
                history |-> Len(samples) > 1,
                sums |-> global_sample # SampleDefault /\ tpp_sample # SampleDefault,
                logged |-> log_interval > 0]
    /\ data' = connect
    /\ welcome' = FALSE
    /\ samples' = <<SampleDefault>>
    /\ now' = 0
    /\ active_sample_time' = 0
    /\ global_sample' = SampleDefault
    /\ tpp_sample' = SampleDefault
    /\ log_interval' = 0
    /\ last_message' = ""
    /\ next_message_time' = 0
    /\ message_count' = 0
    /\ outbox' = <<>>
    /\ closed' = <<>>
    /\ underflow' = underflow
    /\ recvs' = 0
    /\ UNCHANGED <<status, bot, arg, result, input, fed, lines>>

Next == Loop \/ TransportError

Spec == Init /\ [][Next]_vars

(***************************************************************************)
(* most_used on its own (src/src/main.rs:330-349).                         *)
(***************************************************************************)
\* samples with at most three counters set, each up to MaxCount
MostUsedInputs ==
    {[SampleDefault EXCEPT ![CommandFields[i]] = p, ![CommandFields[j]] = q,
                           ![CommandFields[k]] = r] :
        <<i, j, k>> \in {<<9, 10, 11>>} \cup {<<u, v, 10>> : u \in 1..4, v \in 5..11},
        <<p, q, r>> \in (0..MaxCount) \X (0..MaxCount) \X (0..MaxCount)}

MostUsedInit ==
    /\ bot = FALSE
    /\ InitRun
    /\ arg \in MostUsedInputs
    /\ result = ""
    /\ input = <<>>
    /\ fed = 0
    /\ lines = <<>>

\* a call of most_used
CallMostUsed ==
    /\ result = ""
    /\ result' = most_used(arg)
    /\ UNCHANGED <<loopVars, data, arg, input, fed, lines>>

SpecMostUsed == MostUsedInit /\ [][CallMostUsed]_vars

(***************************************************************************)
(* The decoder under fragmentation (src/src/irc.rs:26-78,                  *)
(* src/src/main.rs:233-235).                                               *)
(***************************************************************************)
DecoderBytes == {"a", CR, LF, "xFF"}

\* every byte sequence of length n over DecoderBytes
RECURSIVE ByteSeqs(_)
ByteSeqs(n) ==
    IF n = 0 THEN {<<>>}
    ELSE {Append(s, b) : s \in ByteSeqs(n - 1), b \in DecoderBytes}

DecoderInputs == UNION {ByteSeqs(n) : n \in 0..MaxLen}

DecoderInit ==
    /\ bot = FALSE
    /\ InitRun
    /\ arg = SampleDefault
    /\ result = ""
    /\ input \in DecoderInputs
    /\ fed = 0
    /\ lines = <<>>

\* the state the drain of the loop works on
LoopState(d) ==
    [data |-> d,
     welcome |-> welcome,
     sample |-> samples[Len(samples)],
     out |-> outbox,
     lines |-> lines,
     panic |-> ""]

\* irc.recv() returns the next n bytes, and the loop drains the replies
Feed ==
    /\ status = "running"
    /\ \E n \in 1..(Len(input) - fed) :
        LET st == Drain(LoopState(recv(data, SubSeq(input, fed + 1, fed + n))))
        IN  /\ data' = st.data
            /\ lines' = st.lines
            /\ welcome' = st.welcome
            /\ outbox' = st.out
            /\ samples' = [samples EXCEPT ![Len(samples)] = st.sample]
            /\ status' = IF st.panic = "" THEN "running" ELSE st.panic
            /\ fed' = fed + n
    /\ UNCHANGED <<bot, now, active_sample_time, global_sample, tpp_sample,
                   log_interval, last_message, next_message_time, message_count,
                   closed, underflow, recvs, lost, arg, result, input>>

SpecDecoder == DecoderInit /\ [][Feed]_vars

(***************************************************************************)
(* A session read line by line (src/src/main.rs:116-295): a read returns   *)
(* at most one line, and a bucket lasts a few iterations.                  *)
(***************************************************************************)
TallyTexts == {<<"u">>, <<"H", "A", "U", "T">>, <<"E">>, <<"g", "g">>}

PolledLines == {<<>>, WelcomeLine} \cup {Chat(t) : t \in TallyTexts}

PollInit ==
    /\ bot = FALSE
    /\ InitRun
    /\ Idle

\* an iteration of the loop whose read returns one line or nothing
Poll ==
    /\ status = "running"
    /\ now < MaxPolls * (SleepMillis + PollBusyMillis)
    /\ \E bytes \in PolledLines :
        /\ Iterate(bytes, PollBusyMillis)
        /\ input' = bytes
    /\ UNCHANGED <<bot, arg, result, fed, lines>>

SpecPoll == PollInit /\ [][Poll]_vars

(***************************************************************************)
(* The classifier on constructed lines (src/src/irc.rs:117-245).           *)
(***************************************************************************)
\* every text of length 1..n over the bytes
RECURSIVE TextsOver(_, _)
TextsOver(bytes, n) ==
    IF n = 0 THEN {}
    ELSE {<<b>> : b \in bytes}
            \cup {Append(t, b) : t \in TextsOver(bytes, n - 1), b \in bytes}

Nicks == TextsOver({"n", "!", "@"}, MaxNick)
Accounts == {<<"u">>, <<"u", "@", "v">>, <<"!", "u">>}
Hosts == {<<"h">>, <<"h", "@", "x">>, <<"h", "!">>}
Targets == {<<"#", "c">>, <<":", "t">>}
Payloads == {<<>>, <<"u">>, <<"a", " ", "b">>, <<" ", ":", "x", " ">>}

\* commands that carry a target and a text, and the category of each
ChatCommands ==
    {[token |-> <<"P", "R", "I", "V", "M", "S", "G">>, kind |-> "PrivMsg"],
     [token |-> <<"0", "0", "1">>, kind |-> "Welcome"],
     [token |-> <<"3", "7", "6">>, kind |-> "MotdStop"]}

\* the field values a line is built from
ClassifyInputs ==
    {[form |-> "chat", command |-> c, nick |-> n, account |-> a, host |-> h,
      target |-> t, payload |-> p] :
        c \in ChatCommands, n \in Nicks, a \in Accounts, h \in Hosts,
        t \in Targets, p \in Payloads}
    \cup
    {[form |-> "ping", command |-> [token |-> <<"P", "I", "N", "G">>, kind |-> "Ping"],
      nick |-> <<>>, account |-> <<>>, host |-> <<>>, target |-> <<>>,
      payload |-> p] : p \in Payloads}

\* ":<nick>!<account>@<host> <COMMAND> <target> :<payload>", or "PING :<payload>"
ConstructedLine(a) ==
    IF a.form = "ping" THEN a.command.token \o <<" ", ":">> \o a.payload
    ELSE <<":">> \o a.nick \o <<"!">> \o a.account \o <<"@">> \o a.host \o <<" ">>
            \o a.command.token \o <<" ">> \o a.target \o <<" ", ":">> \o a.payload

ClassifyInit ==
    /\ bot = FALSE
    /\ InitRun
    /\ arg \in ClassifyInputs
    /\ result = None
    /\ input = <<>>
    /\ fed = 0
    /\ lines = <<>>

\* a call of IrcReply::from_str on the constructed line
Classify ==
    /\ ~result.some
    /\ result' = from_str(ConstructedLine(arg))
    /\ UNCHANGED <<loopVars, data, arg, input, fed, lines>>

SpecClassify == ClassifyInit /\ [][Classify]_vars

(***************************************************************************)
(* Properties.                                                             *)
(***************************************************************************)
\* the exact sum of one counter over the buckets of log whose index is in I
RECURSIVE SumField(_, _, _)
SumField(log, f, I) ==
    IF I = {} THEN 0
    ELSE LET i == CHOOSE j \in I : TRUE
         IN  log[i][f] + SumField(log, f, I \ {i})

\* the exact counter-wise sum of buckets lo..hi of log (an empty bucket adds
\* nothing and is left out of the summation)
ExactSum(log, lo, hi) ==
    LET I == {i \in lo..hi : log[i] # SampleDefault}
    IN  [f \in SampleFields |-> SumField(log, f, I)]

\* the chat messages among the lines sent
ChatSends(o) == SelectSeq(o, LAMBDA e : e.cmd = "PRIVMSG")

\* C1: after k rotations the long-window sum is the exact sum of the closed
\* buckets max(1,k-99)..k and the short-window sum that of max(1,k-19)..k
\* (bucket i is the one the i-th rotation closed).
C1_WindowSumsExact ==
    LET k == Len(closed)
    IN  /\ global_sample = ExactSum(closed, Max(1, k - 99), k)
        /\ tpp_sample = ExactSum(closed, Max(1, k - 19), k)

\* C1 witness: 122 rotations done; bucket 22 (just evicted from the long
\* window) and bucket 122 (just entered both windows) hold messages.
C1_After122Rotations ==
    /\ Len(closed) = 122
    /\ closed[22] # SampleDefault
    /\ closed[122] # SampleDefault

\* C2: no rotation subtracts from a window sum a counter larger than the
\* sum holds.
C2_NoCounterUnderflow == underflow = FALSE

\* C2 witness: rotation 122 has subtracted the non-empty bucket 22 from the
\* long-window sum and the non-empty bucket 102 from the short-window sum.
C2_SubtractedNonEmptyBuckets ==
    /\ Len(closed) = 122
    /\ closed[22] # SampleDefault
    /\ closed[102] # SampleDefault
    /\ tpp_sample = SampleDefault

\* C4: an iteration sends a chat message only if the history was full at its
\* top (100 closed buckets and the open one), the short-window sum it reads
\* has commands/messages >= 0.60 and commands per second >= 2.0 (over the
\* 2 s window), and the bot flag is set.
C4_SendOnlyWhenEligible ==
    [][Len(ChatSends(outbox')) > Len(ChatSends(outbox)) =>
          /\ Len(samples) = 101
          /\ Len(closed) >= 100
          /\ tpp_sample'.message_count > 0
          /\ tpp_sample'.tpp_command_count * 100 >= 60 * tpp_sample'.message_count
          /\ tpp_sample'.tpp_command_count >= 2 * 2
          /\ bot]_vars

\* C4 witness: a chat message was sent, and the short window of a full history
\* once held enough commands among too many messages.
C4_MessageSent ==
    /\ ChatSends(outbox) # <<>>
    /\ Len(samples) = 101
    /\ tpp_sample.tpp_command_count >= 4
    /\ tpp_sample.tpp_command_count * 100 < 60 * tpp_sample.message_count

\* C5 as claimed: between two consecutive chat messages at least the interval
\* computed in the iteration of the later one has passed.
C5_ElapsedMeetsCurrentInterval ==
    LET sends == ChatSends(outbox)
    IN  \A i \in 2..Len(sends) :
            sends[i].at - sends[i - 1].at >=
                Max(8000 - 500 * sends[i].tpp.tpp_command_count, MinIntervalMillis)

\* C5 as amended: between two consecutive chat messages at least the interval
\* computed in the iteration of the earlier one has passed, that interval being
\* max(8 s - commands per second, 1/rate-limit + margin) of the short-window
\* sum of that iteration.
C5_ElapsedMeetsPreviousInterval ==
    LET sends == ChatSends(outbox)
    IN  /\ \A i \in 1..Len(sends) :
            sends[i].interval =
                Max(8000 - 500 * sends[i].tpp.tpp_command_count, MinIntervalMillis)
        /\ \A i \in 2..Len(sends) :
            sends[i].at - sends[i - 1].at >= sends[i - 1].interval

\* C5 witness: two consecutive chat messages whose iterations computed
\* different intervals.
C5_TwoSendsTwoIntervals ==
    LET sends == ChatSends(outbox)
    IN  \E i \in 2..Len(sends) : sends[i].interval > sends[i - 1].interval

\* C9: the text of a chat message is the label chosen in its iteration, or that
\* label in upper case when the label equals the text sent before it.
C9_LabelRecasedOnRepeat ==
    LET sends == ChatSends(outbox)
    IN  \A i \in 1..Len(sends) :
            LET label == most_used(sends[i].tpp)
                before == IF i = 1 THEN "" ELSE sends[i - 1].text
            IN  sends[i].text =
                    IF label = before THEN make_ascii_uppercase(label) ELSE label

\* C9 witness: "n" was sent, then "N" for the same label, then "n" again.
C9_SameLabelThreeTimes ==
    LET sends == ChatSends(outbox)
    IN  /\ Len(sends) >= 3
        /\ sends[1].text = "n"
        /\ sends[2].text = "N"
        /\ sends[3].text = "n"

\* C10: the history never holds more than 101 buckets, and a rotation of a
\* history of 101 removes the oldest bucket and subtracts it from the
\* long-window sum.
C10_HistoryBounded ==
    /\ [](Len(samples) <= 101)
    /\ [][(Len(closed') = Len(closed) + 1 /\ Len(samples) = 101) =>
            /\ Len(samples') = 101
            /\ SubSeq(samples', 1, 100) = SubSeq(samples, 2, 101)
            /\ \A f \in SampleFields :
                    global_sample'[f] =
                        global_sample[f] + samples[101][f] - samples[1][f]]_vars

\* C10 witness: rotation 101 has evicted the non-empty bucket 1.
C10_EvictedOldest ==
    /\ Len(closed) = 101
    /\ Len(samples) = 101
    /\ closed[1] # SampleDefault

\* C8 as claimed: no line the server sends aborts the loop.
C8_NoLineInterruptsLoop == status = "running"

\* C3 as claimed: most_used returns the label at index 9 of the sorted
\* eleven-entry list, the second-highest weighted count.
C3_SecondHighest ==
    result # "" => result = sort_by_key(tpp_commands(arg))[Len(tpp_commands(arg)) - 1][2]

\* C6 as claimed: a terminator that is the last byte of the buffer ends a
\* line: decode_reply returns the text before it and empties the buffer.
C6_TerminatorAtEnd ==
    LET n == Len(data)
        r == decode_reply(data)
    IN  (n > 0 /\ Position(data, CR) = n /\ from_utf8_ok(SubSeq(data, 1, n - 1))) =>
            /\ r.panic = ""
            /\ r.reply.some
            /\ r.reply.value.raw = SubSeq(data, 1, n - 1)
            /\ r.data = <<>>

\* C7 as claimed: however the bytes are split over the reads, the replies
\* decoded and the buffer left are those of one read of all the bytes.
C7_FragmentationIndependent ==
    LET whole == Drain([LoopState(input) EXCEPT !.data = input,
                                                 !.lines = <<>>,
                                                 !.welcome = FALSE,
                                                 !.out = <<>>,
                                                 !.sample = SampleDefault])
    IN  (fed = Len(input) \/ status # "running") =>
            /\ lines = whole.lines
            /\ (status = "running") = (whole.panic = "")
            /\ status = "running" => data = whole.data

\* the accessors of the classified line give back the fields it was built from
RoundTrips ==
    LET r == result.value
        s == sender(r)
    IN  /\ r.command = Known(arg.command.kind)
        /\ text(r) = Some(arg.payload)
        /\ IF arg.form = "ping" THEN ~target(r).some
           ELSE /\ target(r) = Some(arg.target)
                /\ s.some
                /\ s.value.nickname = Some(arg.nick)
                /\ s.value.user = Some(arg.account)
                /\ s.value.server = arg.host

\* the sender of the line can be read in one way only
Unambiguous(a) ==
    \/ a.form = "ping"
    \/ /\ \A i \in 1..Len(a.nick) : a.nick[i] \notin {"!", "@"}
       /\ \A i \in 1..Len(a.account) : a.account[i] # "@"

\* C11 as claimed: a line built from non-empty space-free nick, account, host
\* and target and any payload classifies to its category, and the accessors
\* return exactly those fields (no target for PING).
C11_RoundTrip == result.some => RoundTrips

\* C11 as amended: the same for lines whose nick holds neither '!' nor '@' and
\* whose account holds no '@'.
C11_RoundTripUnambiguous == (result.some /\ Unambiguous(arg)) => RoundTrips

\* C11 witness: a chat line with a two-byte nick and a payload with a space
\* was classified and its fields recovered.
C11_ChatLineRecovered ==
    /\ result.some
    /\ arg.form = "chat"
    /\ Unambiguous(arg)
    /\ Len(arg.nick) = 2
    /\ arg.payload = <<"a", " ", "b">>
    /\ RoundTrips

\* the counters of the commands
NamedCounters == {CommandFields[i] : i \in 1..Len(CommandFields)}

\* C12: an iteration that reads one chat line after the welcome adds one to
\* the message counter of the open bucket, and for a recognized token one to
\* exactly one named counter and to the command total, and to no other
\* counter; the closed buckets stay as they are, and the window sums change
\* only by the bucket a rotation closes, not by the message.
C12_TallyChangesOpenBucketOnly ==
    [][\A t \in TallyTexts : (welcome /\ input' = Chat(t)) =>
          LET rotated == Len(closed') = Len(closed) + 1
              open == samples[Len(samples)]
              before == IF rotated THEN SampleDefault ELSE open
              after == samples'[Len(samples')]
              grown == {f \in NamedCounters : after[f] # before[f]}
          IN  /\ after.message_count = before.message_count + 1
              /\ \A f \in grown : after[f] = before[f] + 1
              /\ Cardinality(grown) = IF CommandField(t) = "" THEN 0 ELSE 1
              /\ after.tpp_command_count = before.tpp_command_count + Cardinality(grown)
              /\ SubSeq(samples', 1, Len(samples') - 1) =
                    IF rotated THEN samples ELSE SubSeq(samples, 1, Len(samples) - 1)
              /\ \A f \in SampleFields :
                    /\ global_sample'[f] =
                            global_sample[f] + (IF rotated THEN open[f] ELSE 0)
                    /\ tpp_sample'[f] =
                            tpp_sample[f] + (IF rotated THEN open[f] ELSE 0)]_vars

\* C12 witness: a bucket with commands was closed, and the bucket opened
\* after it has counted the line "E".
C12_TalliedAfterRotation ==
    /\ Len(samples) = 2
    /\ samples[1].up >= 2
    /\ global_sample = samples[1]
    /\ input = Chat(<<"E">>)
    /\ samples[2].right = 1
    /\ samples[2].message_count = 1

\* C13: a read that leaves the buffer without a terminator byte decodes
\* nothing and keeps every byte: the buffer is the old one and the bytes read.
C13_NoTerminatorKeepsBuffer ==
    [][LET read == SubSeq(input, fed + 1, fed')
       IN  (fed' > fed /\ Position(data \o read, CR) = 0) =>
              /\ data' = data \o read
              /\ lines' = lines
              /\ status' = "running"
              /\ decode_reply(data') = [reply |-> None, data |-> data', panic |-> ""]]_vars

\* C13 witness: all the bytes were read, none of them a terminator, and the
\* buffer holds them all.
C13_PartialLineKept ==
    /\ fed = Len(input)
    /\ Len(input) >= 2
    /\ data = input
    /\ lines = <<>>
    /\ status = "running"

\* whether every terminator byte of s is followed by a line feed
CrlfOnly(s) == \A i \in 1..Len(s) : s[i] = CR => (i < Len(s) /\ s[i + 1] = LF)

\* the lines of s that end in CR LF, in order
RECURSIVE CompleteLines(_)
CompleteLines(s) ==
    LET p == Position(s, CR)
    IN  IF p = 0 THEN <<>>
        ELSE <<SubSeq(s, 1, p - 1)>> \o CompleteLines(SubSeq(s, p + 2, Len(s)))

\* the bytes of s behind its last complete line
RECURSIVE Trailing(_)
Trailing(s) ==
    LET p == Position(s, CR)
    IN  IF p = 0 THEN s ELSE Trailing(SubSeq(s, p + 2, Len(s)))

\* C14 as claimed: bytes whose lines all end in CR LF, appended to an empty
\* buffer and drained, give one reply per complete line, in order, with the
\* line as raw text, and leave the bytes behind the last complete line.
C14_OneRecordPerLine ==
    LET whole == Drain([LoopState(input) EXCEPT !.lines = <<>>,
                                                 !.out = <<>>,
                                                 !.welcome = FALSE,
                                                 !.sample = SampleDefault])
    IN  CrlfOnly(input) =>
            /\ whole.panic = ""
            /\ whole.lines = CompleteLines(input)
            /\ whole.data = Trailing(input)

\* C16: when an iteration has received and drained, the buffer holds no
\* terminator byte; it holds the last bytes read, behind the last terminator.
C16_NoTerminatorLeft ==
    status = "running" =>
        /\ Position(data, CR) = 0
        /\ \E k \in 1..(fed + 1) : data = SubSeq(input, k, fed)

\* C16 witness: lines were decoded, and the start of another one is kept.
C16_LineDecodedAndTailKept ==
    /\ status = "running"
    /\ fed = Len(input)
    /\ lines # <<>>
    /\ data # <<>>

\* C15: the session that starts after a transport error has an empty receive
\* buffer, a history of one empty open bucket, both window sums zero, the
\* log-interval counter zero, the welcome flag false and no last message.
C15_FreshSession ==
    lost.some =>
        /\ data = <<>>
        /\ samples = <<SampleDefault>>
        /\ global_sample = SampleDefault
        /\ tpp_sample = SampleDefault
        /\ log_interval = 0
        /\ ~welcome
        /\ last_message = ""

\* C15 witness: the session the error ended had been welcomed, had sent a
\* message, held a partial line, closed buckets, non-zero sums and a running
\* log-interval counter.
C15_DirtySessionLost ==
    /\ lost.some
    /\ lost.welcome /\ lost.pending /\ lost.label
    /\ lost.history /\ lost.sums /\ lost.logged
    /\ Len(samples) = 1

\* C17: for a short-window sum whose command counters are all zero most_used
\* returns "start", whatever the session did before.
C17_AllZeroGivesStart ==
    (\A f \in NamedCounters : tpp_sample[f] = 0) => most_used(tpp_sample) = "start"

\* C17 witness: commands entered the short window and have left it again.
C17_SumBackToZero ==
    /\ Len(closed) >= 42
    /\ closed[22].tpp_command_count > 0
    /\ \A f \in NamedCounters : tpp_sample[f] = 0

\* C18: two consecutive chat messages of a session are at least
\* 1/MESSAGES_RATE_LIMIT = 1.5 s apart.
C18_RateLimitKept ==
    LET sends == ChatSends(outbox)
    IN  \A i \in 2..Len(sends) :
            sends[i].at - sends[i - 1].at >= (30 * 1000) \div 20

\* C18 witness: two consecutive chat messages less than 2 s apart.
C18_TwoSendsNearLimit ==
    LET sends == ChatSends(outbox)
    IN  \E i \in 2..Len(sends) : sends[i].at - sends[i - 1].at < 2000

\* C19 as claimed: the interval armed by a send is at least
\* 1/MESSAGES_RATE_LIMIT + 0.5 s = 2.0 s, and two consecutive chat messages
\* are at least 2.0 s apart.
C19_MarginHalfSecond ==
    LET sends == ChatSends(outbox)
    IN  /\ \A i \in 1..Len(sends) : sends[i].interval >= 2000
        /\ \A i \in 2..Len(sends) : sends[i].at - sends[i - 1].at >= 2000

\* C20: no chat message has the text of the one sent before it, and every
\* text is the label chosen at its send, in lower or in upper case.
C20_NoRepeatedText ==
    LET sends == ChatSends(outbox)
    IN  \A i \in 1..Len(sends) :
            LET label == most_used(sends[i].tpp)
            IN  /\ i > 1 => sends[i].text # sends[i - 1].text
                /\ sends[i].text \in {label, make_ascii_uppercase(label)}

\* C20 witness: three chat messages in a row for which the same label was chosen.
C20_SameLabelThreeSends ==
    LET sends == ChatSends(outbox)
    IN  /\ Len(sends) >= 3
        /\ \A i \in 2..3 : most_used(sends[i].tpp) = most_used(sends[1].tpp)

\* the sum of the eleven named counters of a sample
NamedTotal(sample) == SumField([i \in 1..Len(CommandFields) |->
                                    [count |-> sample[CommandFields[i]]]],
                               "count", 1..Len(CommandFields))

\* the command total is the sum of the named counters and at most the messages
Consistent(sample) ==
    /\ sample.tpp_command_count = NamedTotal(sample)
    /\ sample.tpp_command_count <= sample.message_count

\* C21: in every bucket of the history and in both window sums the command
\* total equals the sum of the eleven named counters and does not exceed the
\* message counter.
C21_CommandTotalConsistent ==
    /\ \A i \in 1..Len(samples) : samples[i] = SampleDefault \/ Consistent(samples[i])
    /\ Consistent(global_sample)
    /\ Consistent(tpp_sample)

\* C21 witness: the history is full, commands of several kinds and other
\* messages are in the long window, and the short window has given some back.
C21_MixedMessagesCounted ==
    /\ Len(samples) = 101
    /\ global_sample.up > 0 /\ global_sample.b > 0
    /\ global_sample.message_count > global_sample.tpp_command_count
    /\ tpp_sample.tpp_command_count > 0
    /\ tpp_sample.message_count < global_sample.message_count

\* the JOIN lines among the lines sent
JoinSends(o) == SelectSeq(o, LAMBDA e : e.cmd = "JOIN")

\* C22: a session has sent one JOIN when it has decoded a welcome and none
\* before; an iteration sends a JOIN only when it reads the first welcome,
\* and the welcomes read later send nothing.
C22_JoinOnFirstWelcomeOnly ==
    /\ [](Len(JoinSends(outbox)) = IF welcome THEN 1 ELSE 0)
    /\ [][/\ (Len(JoinSends(outbox')) > Len(JoinSends(outbox)))
                => (~welcome /\ welcome' /\ input' = WelcomeLine)
          /\ (welcome /\ input' = WelcomeLine) => (outbox' = outbox)]_vars

\* C22 witness: chat messages were counted after the welcome, and a second
\* welcome was just read.
C22_SecondWelcomeRead ==
    /\ welcome
    /\ input = WelcomeLine
    /\ \E i \in 1..Len(samples) : samples[i].message_count > 0
    /\ Len(JoinSends(outbox)) = 1

====
